---- MODULE Spec2Model ----
(***************************************************************************)
(* The router of the proxy (package proxy, Router): a fixed array of       *)
(* slots, two reference-counted pools of shared backend connections        *)
(* (primary, replica), the router readers-writer lock and the flags        *)
(* online/closed.  Reconfiguration (FillSlot, SwitchMasters, Close) runs   *)
(* under the router write lock and goes through Router.fillSlot, which     *)
(* blocks the slot, waits for its in-flight requests, releases the old     *)
(* handles, retains the new ones and unblocks.  dispatch/dispatchSlot      *)
(* take no router lock: they only go through the slot's own barrier.       *)
(***************************************************************************)
EXTENDS Integers, Sequences, FiniteSets, TLC

\* ------------------------------------------------------------------ bounds
\* Number of slots of the model (the program has models.MaxSlotNum of them).
NumSlots == 2
\* Most requests the sessions have unresolved at a time.
MaxRefs == 2
\* Most frames in the byte stream a decoder is given.
MaxFrames == 2
\* Most calls made on one decoder.
MaxCalls == 3

Slots == 0 .. (NumSlots - 1)
Addrs == {"a1", "a2"}
NoAddr == ""

VARIABLES
    closed,       \* Router.closed
    online,       \* Router.online
    mu,           \* Router.mu: "free" or "w" (held for writing by the running operation)
    slots,        \* Router.slots: slot id -> the fields of Slot
    refs,         \* per slot: the unresolved requests forwarded through it (Slot.refs)
    primary,      \* Router.pool.primary: address -> reference count (an entry per live connection)
    replica,      \* Router.pool.replica
    op,           \* the reconfiguration in progress and its position in the code
    ret,          \* what the last call under the router lock returned (and the descriptor it rejected)
    primaryOnly,  \* Config.BackendPrimaryOnly
    pushed,       \* what the last dispatchAddr did: the address, the connections pushed to, the result
    dec           \* a redis.Decoder: the input left to read (d.br), d.Err and what the last call returned

vars == <<closed, online, mu, slots, refs, primary, replica, op, ret, primaryOnly, pushed, dec>>

\* ------------------------------------------------------------ descriptors
\* A models.Slot descriptor.
Desc(id, locked, ba, bg, mf, mg, rg, fm) ==
    [id |-> id, locked |-> locked, backendAddr |-> ba, backendGid |-> bg,
     migrateFrom |-> mf, migrateGid |-> mg, replicaGroups |-> rg, fm |-> fm]

\* &models.Slot{Id: i}: every other field is the zero value.
EmptyDesc(i) == Desc(i, FALSE, NoAddr, 0, NoAddr, 0, <<>>, "none")

\* The descriptors the controller sends to slot 0: a plain backend, a backend
\* with a migration source and replica groups (one of them empty), a backend
\* to be left locked, and a migration source without a backend.
Plain == Desc(0, FALSE, "a1", 1, NoAddr, 0, <<>>, "sync")

Bodies ==
    { Plain,
      Desc(0, FALSE, "a2", 2, "a1", 1, << <<"a1">>, <<>> >>, "semi"),
      Desc(0, TRUE, "a1", 1, NoAddr, 0, <<>>, "sync"),
      Desc(0, FALSE, NoAddr, 0, "a2", 2, <<>>, "sync") }

\* The descriptors the controller sends to the other slots: plain backends.
OtherBodies == {Plain, Desc(0, FALSE, "a2", 2, NoAddr, 0, <<>>, "semi")}

\* A descriptor whose forwarding method is neither sync nor semi-async.
BadMethod == Desc(0, FALSE, "a2", 2, NoAddr, 0, <<>>, "bad")

\* The calls of FillSlot: the bodies on their slots, and the calls to reject
\* (an id on each side of the range, an unknown method, both).
Calls ==
    {[b EXCEPT !.id = 0] : b \in Bodies}
    \cup {[b EXCEPT !.id = id] : id \in 1 .. (NumSlots - 1), b \in OtherBodies}
    \cup {[BadMethod EXCEPT !.id = id] : id \in {0 - 1, 0}}
    \cup {[b EXCEPT !.id = NumSlots] : b \in {BadMethod, Plain}}

\* The slot ids dispatchSlot is called with.
CallIds == (0 - 1) .. NumSlots

\* The group ids of the masters maps: 0 is the id of an absent backend.
Gids == 0 .. 2

\* A masters map of SwitchMasters: group g -> address a, no other entry.
Masters(g, a) == [x \in Gids |-> IF x = g THEN a ELSE NoAddr]

\* What the info cache answers for an address: its run-id, "" when unknown
\* (the probe failed or timed out).
RunIds(r1, r2) == [a \in Addrs |-> IF a = "a1" THEN r1 ELSE r2]

\* The calls of SwitchMasters: group 1 moves to a2 or to a1 with the two
\* servers being different ones, group 1 moves to a2 with a2 being the same
\* server as a1, or with no run-id known, a map with an entry for group 0, and
\* group 1 stays at a1 with a1 reporting another run-id than before.
SwitchCalls ==
    { <<Masters(1, "a2"), RunIds("r1", "r2")>>,
      <<Masters(1, "a1"), RunIds("r1", "r2")>>,
      <<Masters(1, "a2"), RunIds("r1", "r1")>>,
      <<Masters(1, "a2"), RunIds("", "")>>,
      <<Masters(0, "a1"), RunIds("r1", "r2")>>,
      <<Masters(1, "a1"), RunIds("r3", "r2")>> }

\* redis.InfoCache.GetRunId: the empty address has no run-id.
GetRunId(cache, a) == IF a \in DOMAIN cache THEN cache[a] ELSE ""

\* ------------------------------------------------------------------ pools
\* sharedBackendConnPool.Retain: a new entry, or one more reference.
Retain(pool, a) ==
    [x \in (DOMAIN pool) \cup {a} |->
        IF x = a THEN (IF a \in DOMAIN pool THEN pool[a] + 1 ELSE 1) ELSE pool[x]]

\* sharedBackendConn.Release: nothing for the nil handle; the last reference
\* closes the connections and removes the entry.
Release(pool, a) ==
    IF a = NoAddr \/ a \notin DOMAIN pool THEN pool
    ELSE IF pool[a] = 1 THEN [x \in (DOMAIN pool) \ {a} |-> pool[x]]
    ELSE [pool EXCEPT ![a] = @ - 1]

RECURSIVE ReleaseAll(_, _)
ReleaseAll(pool, as) ==
    IF as = <<>> THEN pool ELSE ReleaseAll(Release(pool, Head(as)), Tail(as))

RECURSIVE RetainAll(_, _)
RetainAll(pool, as) ==
    IF as = <<>> THEN pool ELSE RetainAll(Retain(pool, Head(as)), Tail(as))

RECURSIVE Flatten(_)
Flatten(groups) ==
    IF groups = <<>> THEN <<>> ELSE Head(groups) \o Flatten(Tail(groups))

\* The groups of a descriptor that fillSlot keeps: the empty ones are skipped.
RECURSIVE NonEmptyGroups(_)
NonEmptyGroups(groups) ==
    IF groups = <<>> THEN <<>>
    ELSE IF Head(groups) = <<>> THEN NonEmptyGroups(Tail(groups))
    ELSE <<Head(groups)>> \o NonEmptyGroups(Tail(groups))

\* ------------------------------------------------- decoder: byte streams
\* The limits of the decoder.
MaxBulkBytesLen == 1024 * 1024 * 512
MaxArrayLen == 1024 * 1024

\* The bytes that matter to the decoder; any other byte is a one-character string.
CR == "CR"
LF == "LF"
SP == " "

\* A byte stream is a sequence of runs, Run(b, n) being n times the byte b, and
\* of groups, Group(unit, n) being n times the bytes of unit (a sequence of runs).
Run(b, n) == [b |-> b, n |-> n]
Group(unit, n) == [unit |-> unit, n |-> n]
IsGroup(item) == "unit" \in DOMAIN item

\* The stream with the first copy of its leading group written out.
Unroll(in) ==
    Head(in).unit
    \o (IF Head(in).n > 1 THEN <<Group(Head(in).unit, Head(in).n - 1)>> ELSE <<>>)
    \o Tail(in)

\* The stream after the first byte of its leading run.
Rest1(in) ==
    (IF Head(in).n > 1 THEN <<Run(Head(in).b, Head(in).n - 1)>> ELSE <<>>) \o Tail(in)

\* len(b) of a byte slice b (a sequence of runs).
RECURSIVE BLen(_)
BLen(b) == IF b = <<>> THEN 0 ELSE Head(b).n + BLen(Tail(b))

\* b[i] of a byte slice, i counted from 0.
RECURSIVE At(_, _)
At(b, i) == IF i < Head(b).n THEN Head(b).b ELSE At(Tail(b), i - Head(b).n)

\* b[:k] of a byte slice.
RECURSIVE Take(_, _)
Take(b, k) ==
    IF k = 0 THEN <<>>
    ELSE IF Head(b).n <= k THEN <<Head(b)>> \o Take(Tail(b), k - Head(b).n)
    ELSE <<Run(Head(b).b, k)>>

\* The bytes of a slice one by one (for the short slices that are parsed).
RECURSIVE Expand(_)
Expand(b) ==
    IF b = <<>> THEN <<>>
    ELSE IF Head(b).n = 1 THEN <<Head(b).b>> \o Expand(Tail(b))
    ELSE <<Head(b).b>> \o Expand(<<Run(Head(b).b, Head(b).n - 1)>> \o Tail(b))

\* What a read returns: the error ("nil" for none), the bytes read, the stream left.
Read(err, b, rest) == [err |-> err, b |-> b, rest |-> rest]

\* bufio2.Reader.PeekByte / ReadByte
RECURSIVE ReadByte(_)
ReadByte(in) ==
    IF in = <<>> THEN Read("EOF", <<>>, <<>>)
    ELSE IF IsGroup(Head(in)) THEN ReadByte(Unroll(in))
    ELSE Read("nil", <<Run(Head(in).b, 1)>>, Rest1(in))

\* bufio2.Reader.ReadBytes('\n') / ReadSlice('\n'): up to and with the first LF.
RECURSIVE ReadBytes(_)
ReadBytes(in) ==
    IF in = <<>> THEN Read("EOF", <<>>, <<>>)
    ELSE IF IsGroup(Head(in)) THEN ReadBytes(Unroll(in))
    ELSE IF Head(in).b = LF THEN Read("nil", <<Run(LF, 1)>>, Rest1(in))
    ELSE [ReadBytes(Tail(in)) EXCEPT !.b = <<Head(in)>> \o @]

\* bufio2.Reader.ReadFull(n): exactly n bytes, or an error.
RECURSIVE ReadFull(_, _)
ReadFull(in, n) ==
    IF n = 0 THEN Read("nil", <<>>, in)
    ELSE IF in = <<>> THEN Read("EOF", <<>>, <<>>)
    ELSE IF IsGroup(Head(in)) THEN ReadFull(Unroll(in), n)
    ELSE IF Head(in).n <= n
    THEN [ReadFull(Tail(in), n - Head(in).n) EXCEPT !.b = <<Head(in)>> \o @]
    ELSE Read("nil", <<Run(Head(in).b, n)>>,
              <<Run(Head(in).b, Head(in).n - n)>> \o Tail(in))

\* ---------------------------------------------------------- decoder: Btoi64
Digits == {"0", "1", "2", "3", "4", "5", "6", "7", "8", "9"}

DigitValue(c) ==
    CASE c = "0" -> 0 [] c = "1" -> 1 [] c = "2" -> 2 [] c = "3" -> 3 [] c = "4" -> 4
      [] c = "5" -> 5 [] c = "6" -> 6 [] c = "7" -> 7 [] c = "8" -> 8 [] OTHER -> 9

\* The loop of Btoi64 over the digits of s from n on: the number, -1 when a
\* byte is no digit.
RECURSIVE ParseDigits(_, _)
ParseDigits(s, n) ==
    IF s = <<>> THEN n
    ELSE IF Head(s) \notin Digits THEN 0 - 1
    ELSE ParseDigits(Tail(s), DigitValue(Head(s)) + n * 10)

\* Btoi64: an optional sign and decimal digits; anything else is the error of
\* strconv.ParseInt.
Btoi64(b) ==
    LET s == Expand(b)
        signed == s # <<>> /\ Head(s) \in {"-", "+"}
        body == IF signed THEN Tail(s) ELSE s
    IN  IF body = <<>> \/ ParseDigits(body, 0) < 0
        THEN [err |-> "ErrSyntax", n |-> 0]
        ELSE [err |-> "nil",
              n |-> IF signed /\ Head(s) = "-" THEN 0 - ParseDigits(body, 0)
                    ELSE ParseDigits(body, 0)]

\* ------------------------------------------------------ decoder: decoding
\* A *Resp: its type byte, whether Value and Array are nil, Value (a byte
\* slice) and Array (runs of equal elements: r repeated n times).
Resp(type, null, value, array) ==
    [type |-> type, null |-> null, value |-> value, array |-> array]

\* The nil *Resp.
NilResp == Resp("nil", TRUE, <<>>, <<>>)

\* NewBulkBytes(b)
NewBulkBytes(b) == Resp("$", FALSE, b, <<>>)

\* F of the value of e, which is computed once.
With(e, F(_)) == CHOOSE v \in {F(x) : x \in {e}} : TRUE

\* Decoder.decodeTextBytes: a line without its CRLF.
decodeTextBytes(in) ==
    With(ReadBytes(in), LAMBDA rd :
        IF rd.err # "nil" THEN Read(rd.err, <<>>, rd.rest)
        ELSE IF BLen(rd.b) - 2 < 0 \/ At(rd.b, BLen(rd.b) - 2) # CR
        THEN Read("ErrBadCRLFEnd", <<>>, rd.rest)
        ELSE Read("nil", Take(rd.b, BLen(rd.b) - 2), rd.rest))

\* Decoder.decodeInt: a line that is a number.
decodeInt(in) ==
    With(decodeTextBytes(in), LAMBDA rd :
        IF rd.err # "nil" THEN [err |-> rd.err, n |-> 0, rest |-> rd.rest]
        ELSE [err |-> Btoi64(rd.b).err, n |-> Btoi64(rd.b).n, rest |-> rd.rest])

\* What decodeBulkBytes returns: the error, whether the slice is nil, the slice.
Bytes(err, null, b, rest) == [err |-> err, null |-> null, b |-> b, rest |-> rest]

\* The end of decodeBulkBytes: the n + 2 bytes after the length.
decodeBulkBytesBody(i) ==
    With(ReadFull(i.rest, i.n + 2), LAMBDA rd :
        IF rd.err # "nil" THEN Bytes(rd.err, TRUE, <<>>, rd.rest)
        ELSE IF At(rd.b, i.n) # CR \/ At(rd.b, i.n + 1) # LF
        THEN Bytes("ErrBadCRLFEnd", TRUE, <<>>, rd.rest)
        ELSE Bytes("nil", FALSE, Take(rd.b, i.n), rd.rest))

\* decodeBulkBytes as it would be with the limit compared by >=.
decodeBulkBytesOffByOne(in) ==
    With(decodeInt(in), LAMBDA i :
        IF i.err # "nil" THEN Bytes(i.err, TRUE, <<>>, i.rest)
        ELSE IF i.n < 0 - 1 THEN Bytes("ErrBadBulkBytesLen", TRUE, <<>>, i.rest)
        ELSE IF i.n >= MaxBulkBytesLen
        THEN Bytes("ErrBadBulkBytesLenTooLong", TRUE, <<>>, i.rest)
        ELSE IF i.n = 0 - 1 THEN Bytes("nil", TRUE, <<>>, i.rest)
        ELSE decodeBulkBytesBody(i))

\* Decoder.decodeBulkBytes
decodeBulkBytes(in) ==
    With(decodeInt(in), LAMBDA i :
        IF i.err # "nil" THEN Bytes(i.err, TRUE, <<>>, i.rest)
        ELSE IF i.n < 0 - 1 THEN Bytes("ErrBadBulkBytesLen", TRUE, <<>>, i.rest)
        ELSE IF i.n > MaxBulkBytesLen
        THEN Bytes("ErrBadBulkBytesLenTooLong", TRUE, <<>>, i.rest)
        ELSE IF i.n = 0 - 1 THEN Bytes("nil", TRUE, <<>>, i.rest)
        ELSE decodeBulkBytesBody(i))

\* What decodeArray, decodeMultiBulk and their loops return: the error,
\* whether the slice is nil, the elements (runs of equal ones), the stream left.
Multi(err, null, array, rest) ==
    [err |-> err, null |-> null, array |-> array, rest |-> rest]

\* What decodeResp returns.
Decoded(err, r, rest) == [err |-> err, r |-> r, rest |-> rest]

\* The stream after k copies of its leading group.
AfterCopies(in, k) ==
    (IF Head(in).n > k THEN <<Group(Head(in).unit, Head(in).n - k)>> ELSE <<>>)
    \o Tail(in)

Min(a, b) == IF a < b THEN a ELSE b

\* The elements of more after k copies of r, or the error of more.
Elements(r, k, more) ==
    IF more.err # "nil" THEN more ELSE [more EXCEPT !.array = <<[r |-> r, n |-> k]>> \o @]

RECURSIVE decodeResp(_)
RECURSIVE decodeArrayLoop(_, _)
RECURSIVE decodeMultiBulkLoop(_, _)

\* The element that copies of which the stream starts with, when decodeResp
\* decodes a copy without an error, reading all of its bytes and none after
\* them; an element with an error otherwise.
Repeated(in) ==
    IF in # <<>> /\ IsGroup(Head(in))
    THEN With(decodeResp(Head(in).unit), LAMBDA one :
             IF one.rest = <<>> THEN one ELSE Decoded("none", NilResp, <<>>))
    ELSE Decoded("none", NilResp, <<>>)

\* The loop of decodeArray: n times decodeResp, the first error ends it.
\* Copies of one element are decoded once and counted.
decodeArrayLoop(in, n) ==
    IF n = 0 THEN Multi("nil", FALSE, <<>>, in)
    ELSE With(Repeated(in), LAMBDA copy :
        IF copy.err = "nil"
        THEN With(decodeArrayLoop(AfterCopies(in, Min(n, Head(in).n)),
                                  n - Min(n, Head(in).n)),
                  LAMBDA more : Elements(copy.r, Min(n, Head(in).n), more))
        ELSE With(decodeResp(in), LAMBDA one :
                 IF one.err # "nil" THEN Multi(one.err, TRUE, <<>>, one.rest)
                 ELSE With(decodeArrayLoop(one.rest, n - 1),
                           LAMBDA more : Elements(one.r, 1, more))))

\* Decoder.decodeArray
decodeArray(in) ==
    With(decodeInt(in), LAMBDA i :
        IF i.err # "nil" THEN Multi(i.err, TRUE, <<>>, i.rest)
        ELSE IF i.n < 0 - 1 THEN Multi("ErrBadArrayLen", TRUE, <<>>, i.rest)
        ELSE IF i.n > MaxArrayLen THEN Multi("ErrBadArrayLenTooLong", TRUE, <<>>, i.rest)
        ELSE IF i.n = 0 - 1 THEN Multi("nil", TRUE, <<>>, i.rest)
        ELSE decodeArrayLoop(i.rest, i.n))

\* The switch of decodeResp on the type byte that was read.
decodeRespType(type, in) ==
    IF type \in {"+", "-", ":"}
    THEN With(decodeTextBytes(in), LAMBDA text :
             Decoded(text.err, Resp(type, text.err # "nil", text.b, <<>>), text.rest))
    ELSE IF type = "$"
    THEN With(decodeBulkBytes(in), LAMBDA bulk :
             Decoded(bulk.err, Resp(type, bulk.null, bulk.b, <<>>), bulk.rest))
    ELSE IF type = "*"
    THEN With(decodeArray(in), LAMBDA array :
             Decoded(array.err, Resp(type, array.null, <<>>, array.array), array.rest))
    ELSE Decoded("ErrBadRespType", NilResp, in)

\* Decoder.decodeResp
decodeResp(in) ==
    With(ReadByte(in), LAMBDA rb :
        IF rb.err # "nil" THEN Decoded(rb.err, NilResp, rb.rest)
        ELSE decodeRespType(rb.b[1].b, rb.rest))

\* The loop of decodeMultiBulk: n times decodeResp, the first error or the
\* first element that is not a bulk string ends it.
decodeMultiBulkLoop(in, n) ==
    IF n = 0 THEN Multi("nil", FALSE, <<>>, in)
    ELSE With(Repeated(in), LAMBDA copy :
        IF copy.err = "nil" /\ copy.r.type = "$"
        THEN With(decodeMultiBulkLoop(AfterCopies(in, Min(n, Head(in).n)),
                                      n - Min(n, Head(in).n)),
                  LAMBDA more : Elements(copy.r, Min(n, Head(in).n), more))
        ELSE With(decodeResp(in), LAMBDA one :
                 IF one.err # "nil" THEN Multi(one.err, TRUE, <<>>, one.rest)
                 ELSE IF one.r.type # "$"
                 THEN Multi("ErrBadMultiBulkContent", TRUE, <<>>, one.rest)
                 ELSE With(decodeMultiBulkLoop(one.rest, n - 1),
                           LAMBDA more : Elements(one.r, 1, more))))

\* b[k:] of a byte slice.
RECURSIVE Drop(_, _)
Drop(b, k) ==
    IF k = 0 THEN b
    ELSE IF Head(b).n <= k THEN Drop(Tail(b), k - Head(b).n)
    ELSE <<Run(Head(b).b, Head(b).n - k)>> \o Tail(b)

\* The index after the run of equal bytes that holds b[r].
RECURSIVE RunEnd(_, _)
RunEnd(b, r) ==
    IF r < Head(b).n THEN Head(b).n ELSE Head(b).n + RunEnd(Tail(b), r - Head(b).n)

\* The loop of decodeSingleLineMultiBulk as it would be if every space ended
\* a token, an empty one included.
RECURSIVE SplitLoopKeepEmpty(_, _, _, _)
SplitLoopKeepEmpty(b, l, r, multi) ==
    IF r > BLen(b) THEN multi
    ELSE IF r = BLen(b) \/ At(b, r) = SP
    THEN SplitLoopKeepEmpty(b, r + 1, r + 1,
             Append(multi, [r |-> NewBulkBytes(Take(Drop(b, l), r - l)), n |-> 1]))
    ELSE SplitLoopKeepEmpty(b, l, RunEnd(b, r), multi)

\* The loop of decodeSingleLineMultiBulk over the line b: l is the start of
\* the token being read and r the byte looked at. The bytes of a run that is
\* no run of spaces are passed in one step.
RECURSIVE SplitLoop(_, _, _, _)
SplitLoop(b, l, r, multi) ==
    IF r > BLen(b) THEN multi
    ELSE IF r = BLen(b) \/ At(b, r) = SP
    THEN SplitLoop(b, r + 1, r + 1,
             IF l < r
             THEN Append(multi, [r |-> NewBulkBytes(Take(Drop(b, l), r - l)), n |-> 1])
             ELSE multi)
    ELSE SplitLoop(b, l, RunEnd(b, r), multi)

\* The end of decodeSingleLineMultiBulk: the tokens that were found.
decodeSingleLineTokens(multi, rest) ==
    IF Len(multi) = 0 THEN Multi("ErrBadMultiBulkLen", TRUE, <<>>, rest)
    ELSE Multi("nil", FALSE, multi, rest)

\* Decoder.decodeSingleLineMultiBulk
decodeSingleLineMultiBulk(in) ==
    With(decodeTextBytes(in), LAMBDA rd :
        IF rd.err # "nil" THEN Multi(rd.err, TRUE, <<>>, rd.rest)
        ELSE IF BLen(rd.b) = 0 THEN Multi("nil", TRUE, <<>>, rd.rest)
        ELSE With(SplitLoop(rd.b, 0, 0, <<>>),
                  LAMBDA multi : decodeSingleLineTokens(multi, rd.rest)))

\* The array form of decodeMultiBulk, after its type byte.
decodeMultiBulkArray(in) ==
    With(decodeInt(in), LAMBDA i :
        IF i.err # "nil" THEN Multi(i.err, TRUE, <<>>, i.rest)
        ELSE IF i.n <= 0 THEN Multi("ErrBadArrayLen", TRUE, <<>>, i.rest)
        ELSE IF i.n > MaxArrayLen THEN Multi("ErrBadArrayLenTooLong", TRUE, <<>>, i.rest)
        ELSE decodeMultiBulkLoop(i.rest, i.n))

\* Decoder.decodeMultiBulk
decodeMultiBulk(in) ==
    With(ReadByte(in), LAMBDA rb :
        IF rb.err # "nil" THEN Multi(rb.err, TRUE, <<>>, in)
        ELSE IF rb.b[1].b # "*" THEN decodeSingleLineMultiBulk(in)
        ELSE decodeMultiBulkArray(rb.rest))

\* ---------------------------------------------------------------- decoder
\* What a call of the decoder returned.
Returned(call, err, value) == [call |-> call, err |-> err, value |-> value]

\* No call of the decoder has returned yet.
NoResult == Returned("none", "nil", <<>>)

\* NewDecoder(r): a decoder that reads the bytes of input, d.Err nil.
NewDecoder(input) == [input |-> input, err |-> "nil", calls |-> 0, result |-> NoResult]

\* ------------------------------------------------------- decoder: streams
\* The bytes of s, one run each.
Str(s) == [i \in 1 .. Len(s) |-> Run(s[i], 1)]

CRLF == Str(<<CR, LF>>)

\* The decimal digits of n >= 0.
RECURSIVE Itoa(_)
Itoa(n) ==
    (IF n < 10 THEN <<>> ELSE Itoa(n \div 10))
    \o <<CHOOSE c \in Digits : DigitValue(c) = n % 10>>

\* A type byte and a declared length, as a line.
Header(tag, n) ==
    Str(<<tag>> \o (IF n < 0 THEN <<"-">> \o Itoa(0 - n) ELSE Itoa(n))) \o CRLF

\* A bulk string that declares n bytes and carries k.
BulkFrame(n, k) ==
    Header("$", n) \o (IF k > 0 THEN <<Run("x", k)>> ELSE <<>>) \o CRLF

\* An array that declares n elements and carries k one-byte bulk strings.
ArrayFrame(n, k) ==
    Header("*", n) \o (IF k > 0 THEN <<Group(BulkFrame(1, 1), k)>> ELSE <<>>)

\* A line of the inline form.
Line(s) == Str(s) \o CRLF

\* The frames the streams are made of.
Frames ==
    { BulkFrame(MaxBulkBytesLen, MaxBulkBytesLen),
      BulkFrame(MaxBulkBytesLen + 1, MaxBulkBytesLen + 1),
      Header("$", 0 - 1), Header("$", 0 - 2),
      BulkFrame(0, 0), BulkFrame(3, 3), BulkFrame(3, 2),
      ArrayFrame(MaxArrayLen, MaxArrayLen),
      ArrayFrame(MaxArrayLen + 1, MaxArrayLen + 1),
      Header("*", 0 - 1), Header("*", 0 - 2),
      ArrayFrame(0, 0), ArrayFrame(1, 1), ArrayFrame(2, 1),
      Line(<<"+", "O", "K">>), Line(<<"P", "I", "N", "G">>), Line(<<>>),
      Line(<<SP, SP, SP>>), Line(<<SP, "G", "E", "T", SP, SP, "k", SP>>),
      Str(<<"P", "I", "N", "G", LF>>) }

\* The streams of at most k frames.
RECURSIVE StreamsOf(_)
StreamsOf(k) ==
    IF k = 0 THEN {<<>>}
    ELSE StreamsOf(k - 1) \cup {f \o s : f \in Frames, s \in StreamsOf(k - 1)}

Streams == StreamsOf(MaxFrames)

\* ------------------------------------------------------------------ slots
\* NewRouter: slot i has its id and forwardSync; everything else is zero.
NewSlot ==
    [hold |-> FALSE, switched |-> FALSE, backendAddr |-> NoAddr, backendGid |-> 0,
     migrateAddr |-> NoAddr, migrateGid |-> 0, replicaGroups |-> <<>>, method |-> "sync"]

\* Slot.snapshot: the descriptor of the slot as it is.
snapshot(id) ==
    Desc(id, slots[id].hold, slots[id].backendAddr, slots[id].backendGid,
         slots[id].migrateAddr, slots[id].migrateGid, slots[id].replicaGroups,
         slots[id].method)

NoOp ==
    [kind |-> "none", pc |-> "idle", m |-> EmptyDesc(0), sw |-> FALSE,
     meth |-> "nil", i |-> 0, masters |-> [g \in Gids |-> NoAddr],
     cache |-> [a \in Addrs |-> ""]]

\* The result of a call: the call, its error ("nil" for none, "pending" while
\* the call runs) and, for a FillSlot that was rejected, its descriptor.
Result(call, m, err) == [call |-> call, arg |-> m, err |-> err]

\* newSharedBackendConnPool: no entry.
EmptyPool == [a \in {} |-> 0]

\* sharedBackendConnPool.Get: the handle of the address, borrowed (no
\* reference is taken), NoAddr for the nil handle of an unknown address.
Get(pool, a) == IF a \in DOMAIN pool THEN a ELSE NoAddr

\* dispatchAddr has not been called.
NoPush == [addr |-> NoAddr, conns |-> {}, ok |-> FALSE]

\* The outcome of a dispatchAddr for addr: the connections the request was
\* pushed to (pool and address) and the boolean returned.
Push(addr, conns, ok) == [addr |-> addr, conns |-> conns, ok |-> ok]

\* The router after NewRouter, for either value of backend_primary_only.
NewRouter ==
    /\ closed = FALSE
    /\ online = FALSE
    /\ mu = "free"
    /\ slots = [s \in Slots |-> NewSlot]
    /\ refs = [s \in Slots |-> <<>>]
    /\ primary = EmptyPool
    /\ replica = EmptyPool
    /\ op = NoOp
    /\ ret = Result("none", EmptyDesc(0), "nil")
    /\ pushed = NoPush

\* The router after NewRouter, with or without the replica groups in use; no
\* decoder has input.
InitConfig ==
    /\ NewRouter
    /\ primaryOnly \in BOOLEAN
    /\ dec = NewDecoder(<<>>)

\* A decoder over each of the streams, beside a router that is left alone.
InitDecoder ==
    /\ NewRouter
    /\ primaryOnly = FALSE
    /\ dec \in {NewDecoder(in) : in \in Streams}

\* The router after NewRouter with the replica groups in use.
Init == InitConfig /\ primaryOnly = FALSE

\* ---------------------------------------------------------------- forward
\* The slot of the reconfiguration in progress.
cur == op.m.id

\* Slot.forward with the barrier open: the request is counted in the slot's
\* refs and pushed to the backend the method selects (the primary, or a member
\* of a replica group for a read that may go to a replica); it carries the
\* migration source and the method it was forwarded under.
Request(s, pool, a) ==
    [pool |-> pool, addr |-> a, mig |-> slots[s].migrateAddr, meth |-> slots[s].method]

Targets(s) ==
    {Request(s, "primary", slots[s].backendAddr)}
    \cup {Request(s, "replica", Flatten(slots[s].replicaGroups)[k]) :
            k \in 1 .. Len(Flatten(slots[s].replicaGroups))}

\* The barrier lets a forward through.
BarrierOpen(s) == ~slots[s].hold

\* The requests unresolved in the slots s, s + 1, ...
RECURSIVE InFlight(_)
InFlight(s) == IF s >= NumSlots THEN 0 ELSE Len(refs[s]) + InFlight(s + 1)

\* A session has a request to send.
CanSend == InFlight(0) < MaxRefs

forward(s) ==
    /\ CanSend
    /\ BarrierOpen(s)
    /\ IF slots[s].backendAddr = NoAddr
       THEN UNCHANGED refs    \* the call fails: the slot is not ready
       ELSE \E r \in Targets(s) : refs' = [refs EXCEPT ![s] = Append(@, r)]
    /\ UNCHANGED <<closed, online, mu, slots, primary, replica, op, ret, primaryOnly, pushed, dec>>

\* dispatch as it would be under the router read lock.
dispatchUnderLock == mu = "free" /\ \E s \in Slots : forward(s)

\* Router.dispatch: the hash of the key selects the slot; no router lock.
dispatch == \E s \in Slots : forward(s)

\* Router.dispatchSlot: the caller names the slot; no router lock.
dispatchSlot ==
    \E id \in CallIds :
        IF id < 0 \/ id >= NumSlots
        THEN UNCHANGED vars    \* the call fails: invalid slot id
        ELSE forward(id)

\* A request resolves (a response or an error): its completion leaves the slot's refs.
Resolve ==
    \E s \in Slots : \E k \in 1 .. Len(refs[s]) :
        /\ refs' = [refs EXCEPT ![s] = SubSeq(@, 1, k - 1) \o SubSeq(@, k + 1, Len(@))]
        /\ UNCHANGED <<closed, online, mu, slots, primary, replica, op, ret, primaryOnly, pushed, dec>>

\* ---------------------------------------------------------- master switch
\* hasSameRunId as it would be with the run-ids compared for equal addresses too.
hasSameRunIdAlways(cache, addr1, addr2) ==
    GetRunId(cache, addr1) # "" /\ GetRunId(cache, addr1) = GetRunId(cache, addr2)

\* hasSameRunId as it would be with an unknown run-id taken for the same server.
hasSameRunIdUnknownSame(cache, addr1, addr2) ==
    IF addr1 # addr2
    THEN \/ GetRunId(cache, addr1) = ""
         \/ GetRunId(cache, addr2) = ""
         \/ GetRunId(cache, addr1) = GetRunId(cache, addr2)
    ELSE TRUE

\* hasSameRunId of trySwitchMaster
hasSameRunId(cache, addr1, addr2) ==
    IF addr1 # addr2
    THEN GetRunId(cache, addr1) # "" /\ GetRunId(cache, addr1) = GetRunId(cache, addr2)
    ELSE TRUE

\* SwitchBackend as it would be with every mapped group switched, the held
\* address not looked at.
SwitchBackendAnyMapped(id, masters, cache) ==
    masters[snapshot(id).backendGid] # NoAddr

\* trySwitchMaster: the backend address of slot id is replaced.
SwitchBackend(id, masters, cache) ==
    /\ masters[snapshot(id).backendGid] # NoAddr
    /\ ~hasSameRunId(cache, masters[snapshot(id).backendGid], snapshot(id).backendAddr)

\* trySwitchMaster: the migrate-from address of slot id is replaced.
SwitchMigrate(id, masters, cache) ==
    /\ masters[snapshot(id).migrateGid] # NoAddr
    /\ ~hasSameRunId(cache, masters[snapshot(id).migrateGid], snapshot(id).migrateFrom)

\* trySwitchMaster: switched, slot id is to be re-filled.
NeedsSwitch(id, masters, cache) ==
    SwitchBackend(id, masters, cache) \/ SwitchMigrate(id, masters, cache)

\* The descriptor trySwitchMaster re-fills slot id with: its snapshot with the
\* new addresses.
SwitchDesc(id, masters, cache) ==
    [snapshot(id) EXCEPT
        !.backendAddr = IF SwitchBackend(id, masters, cache)
                        THEN masters[snapshot(id).backendGid] ELSE @,
        !.migrateFrom = IF SwitchMigrate(id, masters, cache)
                        THEN masters[snapshot(id).migrateGid] ELSE @]

\* The loop of SwitchMasters from slot i on: the first slot trySwitchMaster
\* re-fills, NumSlots when it re-fills none.
RECURSIVE NextSwitch(_, _, _)
NextSwitch(i, masters, cache) ==
    IF i >= NumSlots THEN NumSlots
    ELSE IF NeedsSwitch(i, masters, cache) THEN i
    ELSE NextSwitch(i + 1, masters, cache)

\* --------------------------------------------------------------- fillSlot
\* Return from the call that holds the write lock (the deferred s.mu.Unlock).
Return(r) ==
    /\ mu' = "free"
    /\ op' = NoOp
    /\ ret' = Result(op.kind, EmptyDesc(0), r)

\* Enter as it would be with the write lock released before fillSlot.
EnterUnlocked(kind, m, sw, meth, i, masters, cache) ==
    /\ mu' = "free"
    /\ ret' = Result(kind, EmptyDesc(0), "pending")
    /\ op' = [kind |-> kind, pc |-> "block", m |-> m, sw |-> sw, meth |-> meth,
              i |-> i, masters |-> masters, cache |-> cache]

\* The call takes the write lock and enters fillSlot(m, switched, method);
\* i is the slot Close or SwitchMasters is at.
Enter(kind, m, sw, meth, i, masters, cache) ==
    /\ mu' = "w"
    /\ ret' = Result(kind, EmptyDesc(0), "pending")
    /\ op' = [kind |-> kind, pc |-> "block", m |-> m, sw |-> sw, meth |-> meth,
              i |-> i, masters |-> masters, cache |-> cache]

\* The call takes the write lock and returns r with nothing changed.
Reject(kind, m, r) ==
    /\ ret' = Result(kind, m, r)
    /\ UNCHANGED <<mu, op>>

\* fillSlotBlock as it would be without taking the barrier.
fillSlotBlockNoHold ==
    /\ op.pc = "block"
    /\ op' = [op EXCEPT !.pc = "wait"]
    /\ UNCHANGED <<closed, online, mu, slots, refs, primary, replica, ret, primaryOnly, pushed, dec>>

\* fillSlot calls Slot.blockAndWait; first half: the barrier is taken (once).
fillSlotBlock ==
    /\ op.pc = "block"
    /\ slots' = [slots EXCEPT ![cur].hold = TRUE]
    /\ op' = [op EXCEPT !.pc = "wait"]
    /\ UNCHANGED <<closed, online, mu, refs, primary, replica, ret, primaryOnly, pushed, dec>>

\* Slot.blockAndWait, second half: refs.Wait() returns once the slot has drained.
Drained(s) == refs[s] = <<>>

\* Slot.unblock
unblock(sl) == [sl EXCEPT !.hold = FALSE]

\* The slot with every handle cleared and switched set.
Cleared(sl, sw) ==
    [sl EXCEPT !.backendAddr = NoAddr, !.backendGid = 0,
               !.migrateAddr = NoAddr, !.migrateGid = 0,
               !.replicaGroups = <<>>, !.switched = sw]

\* The primary pool with the backend and the migrate handle of slot s released.
ReleasePrimary(s) ==
    Release(Release(primary, slots[s].backendAddr), slots[s].migrateAddr)

\* Every old handle of the slot is released and cleared (backend, migrate,
\* replica groups), and slot.switched is set.
ReleaseHandles ==
    /\ primary' = ReleasePrimary(cur)
    /\ replica' = ReleaseAll(replica, Flatten(slots[cur].replicaGroups))
    /\ slots' = [slots EXCEPT ![cur] = Cleared(@, op.sw)]
    /\ op' = [op EXCEPT !.pc = "retain"]
    /\ UNCHANGED <<closed, online, mu, refs, ret, primaryOnly, pushed, dec>>

\* fillSlotRelease as it would be without waiting for the slot to drain.
fillSlotReleaseNoWait ==
    /\ op.pc = "wait"
    /\ ReleaseHandles

\* fillSlotRelease as it would be with the backend handle never released.
fillSlotReleaseKeepBackend ==
    /\ op.pc = "wait"
    /\ Drained(cur)
    /\ primary' = Release(primary, slots[cur].migrateAddr)
    /\ replica' = ReleaseAll(replica, Flatten(slots[cur].replicaGroups))
    /\ slots' = [slots EXCEPT ![cur] = Cleared(@, op.sw)]
    /\ op' = [op EXCEPT !.pc = "retain"]
    /\ UNCHANGED <<closed, online, mu, refs, ret, primaryOnly, pushed, dec>>

\* fillSlot once blockAndWait has returned (the slot has drained): the old
\* handles are released.
fillSlotRelease ==
    /\ op.pc = "wait"
    /\ Drained(cur)
    /\ ReleaseHandles

\* RetainPrimary as it would be with the migrate source never retained.
RetainPrimaryNoMigrate(m) ==
    IF m.backendAddr # NoAddr THEN Retain(primary, m.backendAddr) ELSE primary

\* The primary pool after the backend and the migrate source of m are retained.
RetainPrimary(m) ==
    LET p1 == IF m.backendAddr # NoAddr THEN Retain(primary, m.backendAddr) ELSE primary
    IN  IF m.migrateFrom # NoAddr THEN Retain(p1, m.migrateFrom) ELSE p1

\* The replica pool after the replica groups of m are retained.
RetainReplica(m) ==
    IF primaryOnly THEN replica ELSE RetainAll(replica, Flatten(m.replicaGroups))

\* Installed as it would be if a fill without a method of its own fell back
\* to forwardSync.
InstalledDefaultMethod(sl, m, meth) ==
    [sl EXCEPT
        !.backendAddr = m.backendAddr,
        !.backendGid = IF m.backendAddr # NoAddr THEN m.backendGid ELSE 0,
        !.migrateAddr = m.migrateFrom,
        !.migrateGid = IF m.migrateFrom # NoAddr THEN m.migrateGid ELSE 0,
        !.replicaGroups = IF primaryOnly THEN <<>> ELSE NonEmptyGroups(m.replicaGroups),
        !.method = IF meth # "nil" THEN meth ELSE "sync"]

\* The slot with the handles of m and, when one is given, the method installed.
Installed(sl, m, meth) ==
    [sl EXCEPT
        !.backendAddr = m.backendAddr,
        !.backendGid = IF m.backendAddr # NoAddr THEN m.backendGid ELSE 0,
        !.migrateAddr = m.migrateFrom,
        !.migrateGid = IF m.migrateFrom # NoAddr THEN m.migrateGid ELSE 0,
        !.replicaGroups = IF primaryOnly THEN <<>> ELSE NonEmptyGroups(m.replicaGroups),
        !.method = IF meth # "nil" THEN meth ELSE @]

\* Unblocked as it would be with the Locked flag of the descriptor ignored.
UnblockedAlways(sl, m) == unblock(sl)

\* The slot as fillSlot leaves it: unblocked unless the descriptor is locked.
Unblocked(sl, m) == IF m.locked THEN sl ELSE unblock(sl)

\* Continue as it would be with Close stopping after the first slot.
ContinueFirstOnly ==
    CASE op.kind = "SwitchMasters"
              /\ NextSwitch(op.i + 1, op.masters, op.cache) < NumSlots ->
            /\ op' = [op EXCEPT
                    !.pc = "block",
                    !.i = NextSwitch(op.i + 1, op.masters, op.cache),
                    !.m = SwitchDesc(NextSwitch(op.i + 1, op.masters, op.cache),
                                     op.masters, op.cache)]
            /\ UNCHANGED <<mu, ret>>
      [] OTHER -> Return("nil")

\* fillSlot returns to its caller: FillSlot returns nil, Close and
\* SwitchMasters go on to the next slot and return after the last one.
Continue ==
    CASE op.kind = "FillSlot" -> Return("nil")
      [] op.kind = "Close" ->
            IF op.i + 1 < NumSlots
            THEN /\ op' = [op EXCEPT !.pc = "block", !.i = op.i + 1,
                                     !.m = EmptyDesc(op.i + 1)]
                 /\ UNCHANGED <<mu, ret>>
            ELSE Return("nil")
      [] OTHER ->
            IF NextSwitch(op.i + 1, op.masters, op.cache) < NumSlots
            THEN /\ op' = [op EXCEPT
                        !.pc = "block",
                        !.i = NextSwitch(op.i + 1, op.masters, op.cache),
                        !.m = SwitchDesc(NextSwitch(op.i + 1, op.masters, op.cache),
                                         op.masters, op.cache)]
                 /\ UNCHANGED <<mu, ret>>
            ELSE Return("nil")

\* The rest of fillSlot: the new handles are retained, the method installed,
\* the slot unblocked unless the descriptor asks to keep it locked.
fillSlotRetain ==
    /\ op.pc = "retain"
    /\ primary' = RetainPrimary(op.m)
    /\ replica' = RetainReplica(op.m)
    /\ slots' = [slots EXCEPT ![cur] = Unblocked(Installed(@, op.m, op.meth), op.m)]
    /\ Continue
    /\ UNCHANGED <<closed, online, refs, primaryOnly, pushed, dec>>

fillSlot ==
    \/ fillSlotBlock
    \/ fillSlotRelease
    \/ fillSlotRetain

\* ------------------------------------------------------- router operations
\* Router.isOnline
isOnline == online /\ ~closed

\* Start as it would be without the test of closed.
StartAlways ==
    /\ mu = "free"
    /\ online' = TRUE
    /\ ret' = Result("Start", EmptyDesc(0), "nil")
    /\ UNCHANGED <<closed, mu, slots, refs, primary, replica, op, primaryOnly, pushed, dec>>

\* Router.Start
Start ==
    /\ mu = "free"
    /\ online' = IF closed THEN online ELSE TRUE
    /\ ret' = Result("Start", EmptyDesc(0), "nil")
    /\ UNCHANGED <<closed, mu, slots, refs, primary, replica, op, primaryOnly, pushed, dec>>

\* FillSlotError as it would be with the method checked before the slot id.
FillSlotErrorMethodFirst(m) ==
    IF closed THEN "ErrClosedRouter"
    ELSE IF m.fm \notin {"sync", "semi"} THEN "ErrInvalidMethod"
    ELSE IF m.id < 0 \/ m.id >= NumSlots THEN "ErrInvalidSlotId"
    ELSE "nil"

\* The checks of Router.FillSlot, in their order: the error, "nil" for none.
FillSlotError(m) ==
    IF closed THEN "ErrClosedRouter"
    ELSE IF m.id < 0 \/ m.id >= NumSlots THEN "ErrInvalidSlotId"
    ELSE IF m.fm \notin {"sync", "semi"} THEN "ErrInvalidMethod"
    ELSE "nil"

\* Router.FillSlot, up to the call of fillSlot.
FillSlot ==
    \E m \in Calls :
        /\ mu = "free"
        /\ IF FillSlotError(m) # "nil"
           THEN Reject("FillSlot", m, FillSlotError(m))
           ELSE Enter("FillSlot", m, FALSE, m.fm, 0, NoOp.masters, NoOp.cache)
        /\ UNCHANGED <<closed, online, slots, refs, primary, replica, primaryOnly, pushed, dec>>

\* Router.Close, up to the first fillSlot.
Close ==
    /\ mu = "free"
    /\ IF closed
       THEN /\ Reject("Close", EmptyDesc(0), "nil")
            /\ UNCHANGED closed
       ELSE /\ closed' = TRUE
            /\ Enter("Close", EmptyDesc(0), FALSE, "nil", 0, NoOp.masters, NoOp.cache)
    /\ UNCHANGED <<online, slots, refs, primary, replica, primaryOnly, pushed, dec>>

\* Router.SwitchMasters, up to the first slot trySwitchMaster re-fills.
SwitchMasters ==
    \E call \in SwitchCalls :
      LET masters == call[1]
          cache == call[2]
      IN
        /\ mu = "free"
        /\ IF closed THEN Reject("SwitchMasters", EmptyDesc(0), "ErrClosedRouter")
           ELSE IF NextSwitch(0, masters, cache) < NumSlots
           THEN Enter("SwitchMasters",
                      SwitchDesc(NextSwitch(0, masters, cache), masters, cache),
                      TRUE, "nil", NextSwitch(0, masters, cache), masters, cache)
           ELSE Reject("SwitchMasters", EmptyDesc(0), "nil")
        /\ UNCHANGED <<closed, online, slots, refs, primary, replica, primaryOnly, pushed, dec>>

\* Router.KeepAlive, under the read lock.
KeepAlive ==
    /\ mu = "free"
    /\ ret' = Result("KeepAlive", EmptyDesc(0), IF closed THEN "ErrClosedRouter" ELSE "nil")
    /\ UNCHANGED <<closed, online, mu, slots, refs, primary, replica, op, primaryOnly, pushed, dec>>

\* dispatchAddr as it would be with the replica pool asked first.
dispatchAddrReplicaFirst ==
    \E addr \in Addrs :
        /\ mu = "free"
        /\ pushed' =
                IF Get(replica, addr) # NoAddr
                THEN Push(addr, {<<"replica", Get(replica, addr)>>}, TRUE)
                ELSE IF Get(primary, addr) # NoAddr
                THEN Push(addr, {<<"primary", Get(primary, addr)>>}, TRUE)
                ELSE Push(addr, {}, FALSE)
        /\ UNCHANGED <<closed, online, mu, slots, refs, primary, replica, op, ret,
                       primaryOnly, dec>>

\* Router.dispatchAddr, under the read lock: the request is pushed to the
\* connection of the primary pool for addr, else to the one of the replica
\* pool, else to none.
dispatchAddr ==
    \E addr \in Addrs :
        /\ mu = "free"
        /\ pushed' =
                IF Get(primary, addr) # NoAddr
                THEN Push(addr, {<<"primary", Get(primary, addr)>>}, TRUE)
                ELSE IF Get(replica, addr) # NoAddr
                THEN Push(addr, {<<"replica", Get(replica, addr)>>}, TRUE)
                ELSE Push(addr, {}, FALSE)
        /\ UNCHANGED <<closed, online, mu, slots, refs, primary, replica, op, ret,
                       primaryOnly, dec>>

\* Switched as it would be with only the first slot looked at.
SwitchedFirstOnly == slots[0].switched

\* The loop of HasSwitched: some slot has switched.
Switched == \E i \in Slots : slots[i].switched

\* Router.HasSwitched, under the read lock.
HasSwitched ==
    /\ mu = "free"
    /\ ret' = Result("HasSwitched", EmptyDesc(0), IF Switched THEN "true" ELSE "false")
    /\ UNCHANGED <<closed, online, mu, slots, refs, primary, replica, op, primaryOnly, pushed, dec>>

Next ==
    \/ FillSlot
    \/ Close
    \/ SwitchMasters
    \/ fillSlot
    \/ KeepAlive
    \/ dispatch
    \/ dispatchSlot
    \/ Resolve

Spec == Init /\ [][Next]_vars

\* The same with Router.Start.
NextLife == Next \/ Start

SpecLife == Init /\ [][NextLife]_vars

\* The same as Spec for either value of backend_primary_only.
SpecConfig == InitConfig /\ [][Next]_vars

\* The same as Spec with the calls that only read the router.
NextRead == Next \/ HasSwitched

SpecRead == Init /\ [][NextRead]_vars

\* The router with its reconfigurations and dispatchAddr alone: the requests
\* that go through the slots touch no pool.
NextAddr ==
    \/ FillSlot
    \/ Close
    \/ SwitchMasters
    \/ fillSlot
    \/ dispatchAddr

SpecAddr == Init /\ [][NextAddr]_vars

\* ------------------------------------------------------ decoder: calls
\* Decode as it would be if the error of a call were not kept in d.Err.
DecodeForgets ==
    /\ dec.calls < MaxCalls
    /\ dec' = IF dec.err # "nil"
              THEN [dec EXCEPT !.calls = @ + 1,
                               !.result = Returned("Decode", "ErrFailedDecoder", NilResp)]
              ELSE [input |-> decodeResp(dec.input).rest,
                    err |-> "nil",
                    calls |-> dec.calls + 1,
                    result |-> Returned("Decode", decodeResp(dec.input).err,
                                        decodeResp(dec.input).r)]
    /\ UNCHANGED <<closed, online, mu, slots, refs, primary, replica, op, ret,
                   primaryOnly, pushed>>

\* Decoder.Decode
Decode ==
    /\ dec.calls < MaxCalls
    /\ dec' = IF dec.err # "nil"
              THEN [dec EXCEPT !.calls = @ + 1,
                               !.result = Returned("Decode", "ErrFailedDecoder", NilResp)]
              ELSE [input |-> decodeResp(dec.input).rest,
                    err |-> decodeResp(dec.input).err,
                    calls |-> dec.calls + 1,
                    result |-> Returned("Decode", decodeResp(dec.input).err,
                                        decodeResp(dec.input).r)]
    /\ UNCHANGED <<closed, online, mu, slots, refs, primary, replica, op, ret,
                   primaryOnly, pushed>>

\* Decoder.DecodeMultiBulk
DecodeMultiBulk ==
    /\ dec.calls < MaxCalls
    /\ dec' = IF dec.err # "nil"
              THEN [dec EXCEPT !.calls = @ + 1,
                               !.result = Returned("DecodeMultiBulk", "ErrFailedDecoder",
                                                   [null |-> TRUE, array |-> <<>>])]
              ELSE [input |-> decodeMultiBulk(dec.input).rest,
                    err |-> decodeMultiBulk(dec.input).err,
                    calls |-> dec.calls + 1,
                    result |-> Returned("DecodeMultiBulk", decodeMultiBulk(dec.input).err,
                                        [null |-> decodeMultiBulk(dec.input).null,
                                         array |-> decodeMultiBulk(dec.input).array])]
    /\ UNCHANGED <<closed, online, mu, slots, refs, primary, replica, op, ret,
                   primaryOnly, pushed>>

\* The calls on one decoder, in any order.
NextDecoder ==
    \/ Decode
    \/ DecodeMultiBulk

SpecDecoder == InitDecoder /\ [][NextDecoder]_vars

\* The router with every call that can run beside a reconfiguration.
NextFair == Next \/ dispatchAddr

\* The call that holds the write lock keeps running (fillSlot takes a step
\* whenever it can), and the requests in flight in a slot resolve.
Fairness ==
    /\ WF_vars(fillSlot)
    /\ \A s \in Slots : WF_vars(Resolve /\ refs'[s] # refs[s])

SpecFair == Init /\ [][NextFair]_vars /\ Fairness

\* ------------------------------------------------------------ vocabulary
\* fillSlot is running on slot s.
Reconf(s) == op.kind # "none" /\ cur = s

\* fillSlot on slot s waits for the slot's unresolved requests.
Draining(s) == Reconf(s) /\ op.pc = "wait" /\ refs[s] # <<>>

\* fillSlot on slot s has released the old handles and not yet retained the new ones.
Partial(s) == Reconf(s) /\ op.pc = "retain"

\* What fillSlot releases and changes in a slot: everything but the barrier.
Handles(s) == [slots[s] EXCEPT !.hold = FALSE]

\* The step forwards a request through slot s.
Sent(s) == Len(refs'[s]) = Len(refs[s]) + 1

\* The request the step forwards through slot s.
NewReq(s) == refs'[s][Len(refs'[s])]

\* The references the pool holds for address a (0: no entry, no connection).
Count(pool, a) == IF a \in DOMAIN pool THEN pool[a] ELSE 0

\* Slot s holds the connection request r was pushed to, and the pool has it.
HeldBy(s, r) ==
    IF r.pool = "primary"
    THEN r.addr = slots[s].backendAddr /\ r.addr \in DOMAIN primary
    ELSE /\ \E k \in 1 .. Len(Flatten(slots[s].replicaGroups)) :
                Flatten(slots[s].replicaGroups)[k] = r.addr
         /\ r.addr \in DOMAIN replica

\* Every unresolved request was pushed to a connection its slot still holds.
InflightHeld == \A s \in Slots : \A k \in 1 .. Len(refs[s]) : HeldBy(s, refs[s][k])

\* The number of elements of sequence q equal to a.
RECURSIVE Occurrences(_, _)
Occurrences(q, a) ==
    IF q = <<>> THEN 0
    ELSE (IF Head(q) = a THEN 1 ELSE 0) + Occurrences(Tail(q), a)

\* ------------------------------------------------------------------- C1
\* C1: fillSlot releases or changes the handles, the method and the switched
\* flag of a slot only in a step taken with the slot's barrier held and no
\* request of the slot unresolved, and every unresolved request was pushed
\* to a connection that its slot still holds and the pool still has.
C1_ReleasedOnlyDrained ==
    [][/\ \A s \in Slots :
            Handles(s)' # Handles(s) =>
                slots[s].hold /\ refs[s] = <<>> /\ refs'[s] = <<>>
       /\ InflightHeld']_vars

\* SwitchMasters has released the handles of a slot of group 1 while a request
\* of another slot is unresolved.
C1_Witness ==
    /\ op.kind = "SwitchMasters"
    /\ op.pc = "retain"
    /\ op.m.backendGid = 1
    /\ slots[cur].backendAddr = NoAddr
    /\ \E t \in Slots : t # cur /\ refs[t] # <<>>

\* ------------------------------------------------------------------- C2
\* C2: while fillSlot has a slot between the release of the old handles and
\* the installation of the new ones, no forward gets through that slot; and
\* every unresolved request carries the backend, the migration source and the
\* method that its slot has, all three of one configuration.
C2_NoPartialObserved ==
    /\ \A s \in Slots : Partial(s) => ~ENABLED forward(s)
    /\ \A s \in Slots : \A k \in 1 .. Len(refs[s]) :
            /\ HeldBy(s, refs[s][k])
            /\ refs[s][k].mig = slots[s].migrateAddr
            /\ refs[s][k].meth = slots[s].method

\* FillSlot has released the handles of a slot it is giving a backend, and a
\* session has a request to send.
C2_Witness ==
    /\ op.kind = "FillSlot"
    /\ op.pc = "retain"
    /\ op.m.backendAddr # NoAddr
    /\ slots[cur].backendAddr = NoAddr
    /\ CanSend

\* ------------------------------------------------------------------- C3
\* FillSlot rebinds slot s while a request pushed to the old backend is unresolved.
Rebinding(s) ==
    /\ op.kind = "FillSlot"
    /\ cur = s
    /\ op.pc \in {"block", "wait"}
    /\ slots[s].backendAddr # NoAddr
    /\ op.m.backendAddr # slots[s].backendAddr
    /\ \E k \in 1 .. Len(refs[s]) : refs[s][k].addr = slots[s].backendAddr

\* C3 as stated: once FillSlot has been called to rebind slot s from A to B
\* with a request pending on A, every forward on s is pushed to B.
C3_Original ==
    [][\A s \in Slots :
            Rebinding(s) /\ Sent(s) /\ NewReq(s).pool = "primary" =>
                NewReq(s).addr = op.m.backendAddr]_vars

\* C3 as amended: FillSlot releases the old handles of s in a step taken with
\* no request of s unresolved, the step takes one reference of A per handle
\* (removing A's entry with the last one) and retains nothing; the new
\* backend is retained in a later step, with the old one already cleared; a
\* forward gets through s during the FillSlot only before the barrier is
\* taken, and every forward is pushed to the backend the slot holds then, so
\* to B from the return of FillSlot on.
C3_Order ==
    [][\A s \in Slots :
        /\ (op.kind = "FillSlot" /\ cur = s /\ op.pc = "wait" /\ op'.pc = "retain") =>
                /\ refs[s] = <<>>
                /\ \A a \in Addrs :
                        Count(primary', a) =
                            Count(primary, a)
                            - (IF slots[s].backendAddr = a THEN 1 ELSE 0)
                            - (IF slots[s].migrateAddr = a THEN 1 ELSE 0)
                /\ slots'[s].backendAddr = NoAddr
        /\ (op.kind = "FillSlot" /\ cur = s /\ op.pc = "retain" /\ op' # op) =>
                /\ slots[s].backendAddr = NoAddr
                /\ slots'[s].backendAddr = op.m.backendAddr
                /\ op.m.backendAddr # NoAddr =>
                        Count(primary', op.m.backendAddr) > Count(primary, op.m.backendAddr)
        /\ (op.kind = "FillSlot" /\ cur = s /\ Sent(s)) => op.pc = "block"
        /\ (Sent(s) /\ NewReq(s).pool = "primary") =>
                NewReq(s).addr = slots[s].backendAddr]_vars

\* FillSlot, called to move a slot from a1 to a2, waits for a request pending on a1.
C3_Witness ==
    /\ op.kind = "FillSlot"
    /\ op.pc = "wait"
    /\ op.m.backendAddr = "a2"
    /\ slots[cur].backendAddr = "a1"
    /\ refs[cur] # <<>>
    /\ refs[cur][1].addr = "a1"

\* ------------------------------------------------------------------- C4
\* C4: while fillSlot waits for slot s to drain, or s is left locked, a
\* request for any other slot t whose barrier is open and which has a backend
\* can be forwarded at once, by dispatch and by dispatchSlot.
C4_OtherSlotsNotDelayed ==
    \A s \in Slots : \A t \in Slots :
        (/\ s # t
         /\ Draining(s) \/ slots[s].hold
         /\ BarrierOpen(t)
         /\ slots[t].backendAddr # NoAddr
         /\ CanSend) =>
            /\ ENABLED (dispatch /\ Sent(t))
            /\ ENABLED (dispatchSlot /\ Sent(t))

\* A reconfiguration waits for a slot to drain while another slot is open and
\* has a backend.
C4_Witness ==
    \E s \in Slots : \E t \in Slots :
        /\ s # t
        /\ Draining(s)
        /\ BarrierOpen(t)
        /\ slots[t].backendAddr # NoAddr
        /\ CanSend

\* ------------------------------------------------------------------- C5
\* C5 as stated: while a reconfiguration waits for a slot to drain, the
\* router lock can be acquired (by KeepAlive for reading, or by a FillSlot).
C5_Original == \A s \in Slots : Draining(s) => ENABLED KeepAlive \/ ENABLED FillSlot

\* C5 as amended: the write lock is held from the call of FillSlot,
\* SwitchMasters or Close to its return, the wait for the drain included: no
\* operation that takes the router lock (KeepAlive, FillSlot, SwitchMasters,
\* Close) can run while a reconfiguration is in progress.
C5_LockHeldAcrossDrain ==
    \A s \in Slots :
        Reconf(s) =>
            /\ mu = "w"
            /\ ~ENABLED KeepAlive
            /\ ~ENABLED FillSlot
            /\ ~ENABLED SwitchMasters
            /\ ~ENABLED Close

\* FillSlot waits for a slot to drain.
C5_Witness == \E s \in Slots : Draining(s) /\ op.kind = "FillSlot"

\* ------------------------------------------------------------------- C6
\* The step is a call of FillSlot (the router is between two calls before it).
FillSlotCalled == op.kind = "none" /\ ret'.call = "FillSlot" /\ (ret' # ret \/ op' # op)

\* C6: a call of FillSlot is rejected exactly when the router is closed, the
\* id is outside [0, N) or the method is neither sync nor semi-async, with
\* closed-router, invalid-slot-id and invalid-method in this order of
\* precedence; a rejected call changes no slot, no barrier and no pool.
C6_FillSlotErrors ==
    [][FillSlotCalled =>
        IF ret'.err = "pending"
        THEN /\ ~closed
             /\ op'.m.id \in Slots
             /\ op'.m.fm \in {"sync", "semi"}
        ELSE /\ ret'.err =
                    (IF closed THEN "ErrClosedRouter"
                     ELSE IF ret'.arg.id \notin Slots THEN "ErrInvalidSlotId"
                     ELSE "ErrInvalidMethod")
             /\ closed \/ ret'.arg.id \notin Slots \/ ret'.arg.fm \notin {"sync", "semi"}
             /\ UNCHANGED <<closed, mu, slots, refs, primary, replica, op>>]_vars

\* A call with an id out of range and an unknown method was rejected for its
\* id, on a router that has a slot configured.
C6_Witness ==
    /\ ret.call = "FillSlot"
    /\ ret.err = "ErrInvalidSlotId"
    /\ ret.arg.fm = "bad"
    /\ \E s \in Slots : slots[s].backendAddr # NoAddr

\* ------------------------------------------------------------------- C7
\* C7: FillSlot leaves the barrier of its slot held exactly when the
\* descriptor is locked (whatever the barrier was before); a held barrier
\* opens only at the end of a fillSlot on that slot whose descriptor is not
\* locked; and no request is forwarded through a slot whose barrier is held.
C7_LockedStaysBlocked ==
    [][\A s \in Slots :
        /\ (op.kind = "FillSlot" /\ cur = s /\ op.pc = "retain" /\ op' # op) =>
                slots'[s].hold = op.m.locked
        /\ (slots[s].hold /\ ~slots'[s].hold) =>
                Reconf(s) /\ op.pc = "retain" /\ ~op.m.locked
        /\ slots[s].hold => ~Sent(s)]_vars

\* FillSlot has returned and left a slot with a backend locked, and a session
\* has a request to send.
C7_Witness ==
    /\ op.kind = "none"
    /\ ret.call = "FillSlot"
    /\ \E s \in Slots : slots[s].hold /\ slots[s].backendAddr # NoAddr
    /\ CanSend

\* ------------------------------------------------------------------- C8
\* Slot s is in the empty state, its barrier open.
EmptySlot(s) ==
    /\ slots[s].backendAddr = NoAddr
    /\ slots[s].migrateAddr = NoAddr
    /\ slots[s].replicaGroups = <<>>
    /\ ~slots[s].switched
    /\ ~slots[s].hold

\* Close has returned.
CloseReturned == closed /\ op.kind = "none"

\* C8: once Close has returned every slot is empty with its barrier open and
\* the pools hold no connection; a later Close changes nothing.
C8_CloseEmptiesAll ==
    [][/\ CloseReturned' =>
            /\ \A s \in Slots : EmptySlot(s)'
            /\ primary' = EmptyPool
            /\ replica' = EmptyPool
       /\ (CloseReturned /\ ret'.call = "Close") =>
            UNCHANGED <<closed, online, mu, slots, refs, primary, replica, op>>]_vars

\* Close has returned.
C8_Witness == CloseReturned /\ ret.call = "Close" /\ ret.err = "nil"

\* ------------------------------------------------------------------- C9
\* The references slot s holds on address a in the primary pool.
PrimaryRefs(s, a) ==
    (IF slots[s].backendAddr = a THEN 1 ELSE 0) + (IF slots[s].migrateAddr = a THEN 1 ELSE 0)

\* The references slot s holds on address a in the replica pool.
ReplicaRefs(s, a) == Occurrences(Flatten(slots[s].replicaGroups), a)

\* The references the slots s, s + 1, ... hold on address a in the primary pool.
RECURSIVE PrimaryTotal(_, _)
PrimaryTotal(s, a) ==
    IF s >= NumSlots THEN 0 ELSE PrimaryRefs(s, a) + PrimaryTotal(s + 1, a)

\* The references the slots s, s + 1, ... hold on address a in the replica pool.
RECURSIVE ReplicaTotal(_, _)
ReplicaTotal(s, a) ==
    IF s >= NumSlots THEN 0 ELSE ReplicaRefs(s, a) + ReplicaTotal(s + 1, a)

\* C9: for every address, the primary pool's count is the number of slots
\* whose backend it is plus the number of slots whose migrate source it is,
\* the replica pool's count is the number of its occurrences in the slots'
\* replica groups, and each pool has an entry for exactly the addresses some
\* slot references.
C9_PoolCounts ==
    /\ \A a \in Addrs :
        /\ Count(primary, a) = PrimaryTotal(0, a)
        /\ Count(replica, a) = ReplicaTotal(0, a)
    /\ \A a \in DOMAIN primary : a \in Addrs /\ primary[a] > 0
    /\ \A a \in DOMAIN replica : a \in Addrs /\ replica[a] > 0

\* An address is held three times in the primary pool (by two slots, once as a
\* migrate source) and once in the replica pool.
C9_Witness == Count(primary, "a1") = 2 /\ Count(primary, "a2") = 1 /\ Count(replica, "a1") = 1

\* ------------------------------------------------------------------ C10
\* masters maps no group of slot s to an address other than the one it holds.
SameAddrs(s, masters) ==
    /\ masters[slots[s].backendGid] \in {NoAddr, slots[s].backendAddr}
    /\ masters[slots[s].migrateGid] \in {NoAddr, slots[s].migrateAddr}

\* C10: SwitchMasters never enters fillSlot for a slot whose groups masters
\* maps to the addresses the slot holds, and no step of a SwitchMasters
\* changes such a slot (its barrier, its handles, its switched flag).
C10_SwitchSameAddrNoOp ==
    [][\A s \in Slots :
        /\ (/\ op'.kind = "SwitchMasters"
            /\ op'.pc = "block"
            /\ op'.m.id = s
            /\ op' # op) => ~SameAddrs(s, op'.masters)
        /\ (op.kind = "SwitchMasters" /\ cur # s /\ SameAddrs(s, op.masters)) =>
                slots'[s] = slots[s]]_vars

\* SwitchMasters re-fills a slot while another slot holds the very address
\* masters maps its group to.
C10_Witness ==
    /\ op.kind = "SwitchMasters"
    /\ \E s \in Slots :
        /\ s # cur
        /\ slots[s].backendAddr # NoAddr
        /\ op.masters[slots[s].backendGid] = slots[s].backendAddr

\* ------------------------------------------------------------------ C11
\* The step enters fillSlot on slot s for SwitchMasters.
EnteringSwitch(s) ==
    op'.kind = "SwitchMasters" /\ op'.pc = "block" /\ op'.m.id = s /\ op' # op

\* masters gives a slot that holds address held the other address new, and
\* the info cache knows both run-ids.
BothKnown(cache, new, held) ==
    GetRunId(cache, new) # "" /\ GetRunId(cache, held) # ""

\* masters gives a slot that holds address held the other address new, and
\* the info cache does not know the run-id of one of them.
UnknownRemap(cache, new, held) ==
    /\ new # NoAddr
    /\ held # NoAddr
    /\ new # held
    /\ ~BothKnown(cache, new, held)

\* Slot t holds an address that masters remaps with a run-id unknown.
UnknownSlot(t, masters, cache) ==
    \/ UnknownRemap(cache, masters[slots[t].backendGid], slots[t].backendAddr)
    \/ UnknownRemap(cache, masters[slots[t].migrateGid], slots[t].migrateAddr)

SameBackend(s, masters) ==
    slots[s].backendAddr # NoAddr /\ masters[slots[s].backendGid] = slots[s].backendAddr

\* masters maps the migrate-from group of slot s to another address than the
\* one the slot holds.
OtherMigrate(s, masters) ==
    masters[slots[s].migrateGid] \notin {NoAddr, slots[s].migrateAddr}

\* The router is between two calls and open: SwitchMasters can be called.
Callable == mu = "free" /\ ~closed

\* C12 as stated: a SwitchMasters call that maps the backend group of a slot
\* to the address the slot holds, with the info cache reporting for that
\* address another run-id (r3) than before, re-fills the slot.
C12_Original ==
    \A s \in Slots : \A call \in SwitchCalls :
        (/\ Callable
         /\ SameBackend(s, call[1])
         /\ call[2][slots[s].backendAddr] = "r3") =>
            NeedsSwitch(s, call[1], call[2])

\* C12 as amended: when masters maps the backend group of a slot to the
\* address the slot holds, the backend address is not replaced whatever
\* run-id the info cache reports for it: the slot is re-filled only if its
\* migrate-from group is mapped to another address, and then with the same
\* backend address; otherwise the call leaves the slot and its switched flag
\* as they are.
C12_SameAddressIgnoresRunId ==
    [][\A s \in Slots :
        /\ Callable =>
            \A call \in SwitchCalls :
                SameBackend(s, call[1]) =>
                    /\ ~SwitchBackend(s, call[1], call[2])
                    /\ SwitchDesc(s, call[1], call[2]).backendAddr = slots[s].backendAddr
                    /\ NeedsSwitch(s, call[1], call[2]) => OtherMigrate(s, call[1])
        /\ (EnteringSwitch(s) /\ SameBackend(s, op'.masters)) =>
                /\ OtherMigrate(s, op'.masters)
                /\ op'.m.backendAddr = slots[s].backendAddr
        /\ (/\ op.kind = "SwitchMasters"
            /\ SameBackend(s, op.masters)
            /\ ~OtherMigrate(s, op.masters)) =>
                /\ cur # s
                /\ slots'[s].switched = slots[s].switched
                /\ slots'[s].backendAddr = slots[s].backendAddr
                /\ slots'[s].hold = slots[s].hold]_vars

\* SwitchMasters, called with group 1 at a1 and a1 reporting the run-id r3,
\* re-fills a slot while another slot, which holds a1 for group 1 and has not
\* switched, is left as it is.
C12_Witness ==
    /\ op.kind = "SwitchMasters"
    /\ op.cache["a1"] = "r3"
    /\ op.masters[1] = "a1"
    /\ \E s \in Slots :
        /\ s # cur
        /\ slots[s].backendAddr = "a1"
        /\ slots[s].backendGid = 1
        /\ ~slots[s].switched

C14_MigrateImpliesBackend ==
    \A s \in Slots : slots[s].migrateAddr # NoAddr => slots[s].backendAddr # NoAddr

\* ------------------------------------------------------------------ C15
\* C15 as stated: no request of a slot is unresolved when its barrier changes
\* state, in either direction.
C15_Original ==
    [][\A s \in Slots : slots'[s].hold # slots[s].hold => refs[s] = <<>>]_vars

\* C15 as amended: a barrier goes from held to open only with no request of
\* the slot unresolved; it goes from open to held when blockAndWait takes it,
\* with or without requests unresolved, and fillSlot goes on from the wait
\* only once the slot has drained; no request enters the slot in between.
C15_BarrierTransitions ==
    [][\A s \in Slots :
        /\ (slots[s].hold /\ ~slots'[s].hold) => refs[s] = <<>> /\ refs'[s] = <<>>
        /\ (~slots[s].hold /\ slots'[s].hold) => Reconf(s) /\ op.pc = "block"
        /\ (Reconf(s) /\ op.pc = "wait" /\ op' # op) => refs[s] = <<>> /\ slots[s].hold
        /\ slots[s].hold => Len(refs'[s]) <= Len(refs[s])]_vars

\* Close has taken the barrier of a slot that has a request unresolved.
C15_Witness ==
    /\ op.kind = "Close"
    /\ op.pc = "wait"
    /\ slots[cur].hold
    /\ refs[cur] # <<>>

\* ------------------------------------------------------------------ C16
\* C16: dispatchAddr returns true exactly when the primary or the replica
\* pool has a connection for the address; it then pushes the request to one
\* connection, the primary pool's when both pools have the address, and to
\* none when it returns false; it runs with no reconfiguration in progress,
\* changes no reference count, and the connection it pushes to is held in its
\* pool.
C16_DispatchAddr ==
    [][pushed' # pushed =>
        /\ mu = "free"
        /\ op.kind = "none"
        /\ pushed'.ok <=>
                (pushed'.addr \in DOMAIN primary \/ pushed'.addr \in DOMAIN replica)
        /\ pushed'.addr \in DOMAIN primary =>
                pushed'.conns = {<<"primary", pushed'.addr>>}
        /\ (pushed'.addr \notin DOMAIN primary /\ pushed'.addr \in DOMAIN replica) =>
                pushed'.conns = {<<"replica", pushed'.addr>>}
        /\ pushed'.ok => Cardinality(pushed'.conns) = 1
        /\ ~pushed'.ok => pushed'.conns = {}
        /\ \A c \in pushed'.conns :
                Count(IF c[1] = "primary" THEN primary' ELSE replica', c[2]) > 0
        /\ UNCHANGED <<primary, replica, slots, refs, closed>>]_vars

\* dispatchAddr has pushed to the primary pool's connection for an address
\* that both pools hold.
C16_Witness ==
    /\ pushed.ok
    /\ pushed.conns = {<<"primary", "a1">>}
    /\ "a1" \in DOMAIN primary
    /\ "a1" \in DOMAIN replica

\* A call of the decoder returns in this step.
DecoderCall == dec'.calls = dec.calls + 1

\* C17: once a call of Decode or DecodeMultiBulk has returned an error, every
\* later call of either returns ErrFailedDecoder and reads no byte, whatever
\* the bytes left are; and the decoder is failed only if a call has returned
\* an error: it is not failed when it is made, and a call leaves it failed
\* exactly when it was failed before or the call returns an error.
C17_FailedDecoder ==
    /\ [](dec.calls = 0 => dec.err = "nil")
    /\ [][DecoderCall =>
            /\ dec.err # "nil" =>
                 /\ dec'.result.err = "ErrFailedDecoder"
                 /\ dec'.input = dec.input
                 /\ dec'.err = dec.err
            /\ dec'.err # "nil" <=> (dec.err # "nil" \/ dec'.result.err # "nil")]_vars

\* A call on a failed decoder has returned ErrFailedDecoder with bytes of a
\* frame that decodes left unread.
C17_Witness ==
    /\ dec.calls >= 2
    /\ dec.err \notin {"nil", "ErrFailedDecoder"}
    /\ dec.result.err = "ErrFailedDecoder"
    /\ dec.input # <<>>
    /\ decodeResp(dec.input).err = "nil"

\* The type byte the stream starts with ("" for an empty stream).
Tag(in) == IF in = <<>> THEN "" ELSE ReadByte(in).b[1].b

\* The line after the type byte, read as the length the frame declares.
Declared(in) == decodeInt(ReadByte(in).rest)

\* len(array) of decoded elements kept as runs.
RECURSIVE ArrayLen(_)
ArrayLen(a) == IF a = <<>> THEN 0 ELSE Head(a).n + ArrayLen(Tail(a))

\* Decode returns in this step, on a decoder that had not failed, from a
\* bulk string or an array with a length line that is a number.
DecodesLength ==
    /\ DecoderCall
    /\ dec'.result.call = "Decode"
    /\ dec.err = "nil"
    /\ Tag(dec.input) \in {"$", "*"}
    /\ Declared(dec.input).err = "nil"

\* C18: Decode accepts a declared bulk length n exactly when
\* -1 <= n <= 512 MiB and a declared array length exactly when -1 <= n <= 1 Mi.
\* Below -1 the call fails with the bad-length error and above the limit with
\* the too-long error; at -1 it returns the null value and reads nothing after
\* the length line; from 0 to the limit, the limit included, no length error
\* is returned for a bulk string and an array fails only as the decoding of
\* its n elements fails, and a value returned has exactly n bytes or elements.
C18_LengthLimits ==
    [][DecodesLength =>
         LET bulk == Tag(dec.input) = "$"
             n == Declared(dec.input).n
             limit == IF bulk THEN MaxBulkBytesLen ELSE MaxArrayLen
             badLen == IF bulk THEN "ErrBadBulkBytesLen" ELSE "ErrBadArrayLen"
             tooLong == IF bulk THEN "ErrBadBulkBytesLenTooLong"
                        ELSE "ErrBadArrayLenTooLong"
             r == dec'.result
         IN  /\ n < 0 - 1 => r.err = badLen
             /\ n > limit => r.err = tooLong
             /\ n = 0 - 1 =>
                  /\ r.err = "nil"
                  /\ r.value.null
                  /\ r.value.type = Tag(dec.input)
                  /\ dec'.input = Declared(dec.input).rest
             /\ (0 <= n /\ n <= limit) =>
                  /\ bulk => r.err \notin {badLen, tooLong}
                  /\ ~bulk => r.err = decodeArrayLoop(Declared(dec.input).rest, n).err
                  /\ r.err = "nil" =>
                       /\ ~r.value.null
                       /\ bulk => BLen(r.value.value) = n
                       /\ ~bulk => ArrayLen(r.value.array) = n]_vars

\* Decode has returned a bulk string of exactly 512 MiB.
C18_Witness ==
    /\ dec.result.call = "Decode"
    /\ dec.result.err = "nil"
    /\ dec.result.value.type = "$"
    /\ ~dec.result.value.null
    /\ BLen(dec.result.value.value) = MaxBulkBytesLen

\* The stream starts with a line that ends in CRLF.
HasLine(in) ==
    /\ ReadBytes(in).err = "nil"
    /\ BLen(ReadBytes(in).b) >= 2
    /\ At(ReadBytes(in).b, BLen(ReadBytes(in).b) - 2) = CR

\* The first line of the stream without its CRLF, as runs of equal bytes.
LineOf(in) == Take(ReadBytes(in).b, BLen(ReadBytes(in).b) - 2)

\* The runs of b at which a maximal space-free part of b starts.
Starts(b) == {i \in 1 .. Len(b) : b[i].b # SP /\ (i = 1 \/ b[i - 1].b = SP)}

\* The k-th of them, from the left.
TokenStart(b, k) == CHOOSE i \in Starts(b) : Cardinality({j \in Starts(b) : j < i}) = k - 1

\* The last run of the maximal space-free part that starts at run i.
TokenEnd(b, i) ==
    CHOOSE j \in i .. Len(b) :
        /\ \A m \in i .. j : b[m].b # SP
        /\ j = Len(b) \/ b[j + 1].b = SP

\* DecodeMultiBulk returns in this step, on a decoder that had not failed,
\* from a stream that starts with a CRLF-terminated line and not with '*'.
DecodesLine ==
    /\ DecoderCall
    /\ dec'.result.call = "DecodeMultiBulk"
    /\ dec.err = "nil"
    /\ Tag(dec.input) \notin {"", "*"}
    /\ HasLine(dec.input)

\* C19: DecodeMultiBulk on input whose first byte is not '*' reads one
\* CRLF-terminated line, no byte more, and returns the maximal space-free
\* parts of the line, in order, as bulk strings, none of them empty or with a
\* space in it; an empty line gives the nil result without an error, and a
\* line of spaces only fails with ErrBadMultiBulkLen.
C19_InlineTokens ==
    [][DecodesLine =>
         LET b == LineOf(dec.input)
             r == dec'.result
         IN  /\ dec'.input = ReadBytes(dec.input).rest
             /\ b = <<>> => r.err = "nil" /\ r.value.null /\ r.value.array = <<>>
             /\ (b # <<>> /\ Starts(b) = {}) => r.err = "ErrBadMultiBulkLen"
             /\ Starts(b) # {} =>
                  /\ r.err = "nil"
                  /\ ~r.value.null
                  /\ Len(r.value.array) = Cardinality(Starts(b))
                  /\ \A k \in 1 .. Len(r.value.array) :
                       /\ r.value.array[k].n = 1
                       /\ r.value.array[k].r =
                            NewBulkBytes(SubSeq(b, TokenStart(b, k), TokenEnd(b, TokenStart(b, k))))
                       /\ BLen(r.value.array[k].r.value) > 0
                       /\ \A m \in 1 .. Len(r.value.array[k].r.value) :
                            r.value.array[k].r.value[m].b # SP]_vars

\* DecodeMultiBulk has returned the tokens GET and k of a line with spaces
\* before, between and after them.
C19_Witness ==
    /\ dec.result.call = "DecodeMultiBulk"
    /\ dec.result.err = "nil"
    /\ dec.calls = 2
    /\ dec.result.value.array =
         <<[r |-> NewBulkBytes(Str(<<"G", "E", "T">>)), n |-> 1],
           [r |-> NewBulkBytes(Str(<<"k">>)), n |-> 1]>>

C21_NoSourceInstalled ==
    [][/\ \A s \in Slots : EnteringSwitch(s) =>
            /\ slots[s].backendAddr = NoAddr => op'.m.backendAddr = NoAddr
            /\ slots[s].migrateAddr = NoAddr => op'.m.migrateFrom = NoAddr
       /\ (op.kind = "SwitchMasters" /\ op.pc = "retain" /\ op' # op) =>
            /\ slots'[cur].backendAddr = op.m.backendAddr
            /\ slots'[cur].migrateAddr = op.m.migrateFrom]_vars

\* ------------------------------------------------------------------ C22
\* C22: provided the requests in flight resolve, every call of FillSlot,
\* SwitchMasters and Close that has taken the write lock returns and releases
\* it, whatever dispatch, dispatchSlot, dispatchAddr and KeepAlive do
\* meanwhile, also when the slot was left locked by an earlier FillSlot.
C22_ReconfigurationReturns ==
    \A k \in {"FillSlot", "SwitchMasters", "Close"} :
        (op.kind = k) ~> (op.kind = "none" /\ mu = "free" /\ ret.call = k /\ ret.err = "nil")

\* A reconfiguration waits in blockAndWait for requests in flight while
\* another slot is left locked by an earlier FillSlot.
C22_Witness ==
    /\ op.kind # "none"
    /\ op.pc = "wait"
    /\ ~Drained(cur)
    /\ mu = "w"
    /\ \E s \in Slots \ {cur} : slots[s].hold

\* ------------------------------------------------------------------ C23
\* C23: closing is absorbing. Once Close has set closed, closed stays true and
\* isOnline false in every later state, no step (a Start included) changes
\* online, and every FillSlot, SwitchMasters and KeepAlive that returns
\* returns ErrClosedRouter and leaves every slot and both pools as they were.
C23_CloseAbsorbing ==
    /\ [](closed => ~isOnline)
    /\ [][closed =>
            /\ closed'
            /\ ~isOnline'
            /\ online' = online
            /\ (ret' # ret /\ ret'.call \in {"FillSlot", "SwitchMasters", "KeepAlive"}) =>
                 /\ ret'.err = "ErrClosedRouter"
                 /\ slots' = slots
                 /\ primary' = primary
                 /\ replica' = replica]_vars

\* Start has returned on a router that was closed before it was ever started:
\* online is still false.
C23_Witness ==
    /\ closed
    /\ op.kind = "none"
    /\ ret.call = "Start"
    /\ ~online

====
